---------------------------- MODULE Spec2Model ----------------------------
(***************************************************************************)
(* Model of server.js of RP-Studio-Chatbot.  The file holds two versions   *)
(* of the server: the embedding version (lines 1-240: knowledge,           *)
(* embeddings, .index.json cache, findRelevantChunksEmbedding) and the     *)
(* keyword version (lines 242-497: knowledgeChunks, findRelevantChunks).   *)
(*                                                                         *)
(* Representation of text.  A document is the sequence of the parts that   *)
(* text.split(/\n{2,}/).map(trim) yields; a part is [tag, len], tag        *)
(* standing for its characters and len for its trimmed length (len = 0 is  *)
(* a part that trims to the empty string).  A piece of a part is           *)
(* [tag, from, to]: the characters from (inclusive) to (exclusive), as     *)
(* String.prototype.slice counts them.                                     *)
(***************************************************************************)
EXTENDS Integers, Sequences, FiniteSets, TLC

VARIABLES
    \* pushChunks (embedding version) run step by step on one text
    cText, cBlocks, cB, cI, cOut, cPc,
    \* embedding server: let knowledge = [], let embeddings = []
    knowledge, embeddings,
    \* one call of findRelevantChunksEmbedding(question, k)
    rQ, rK, rHits, rPc,
    \* keyword server: let knowledgeChunks = [], one call of
    \* findRelevantChunks(question, max), one POST /api/chat request
    knowledgeChunks, kQuestion, kMax, kHits, kPc, kChat,
    \* embedding server: the knowledge directory, whether pdf-parse loaded, the
    \* contents of the files and of .index.json
    dirExists, pdfParse, fs, index,
    \* embedding server: loadKnowledge runs in flight, whether the startup
    \* call was made, whether app.listen was called, the POST /api/chat
    \* request being served
    loads, started, listening, chat,
    \* how many more reloads, edits and chats the environment makes
    reloadsLeft, editsLeft, chatsLeft,
    \* history: how the last finished load ended, the chunk count when
    \* .index.json was last written, how many loads ran since the last time no
    \* load was in
    \* flight began, whether a file was replaced since then, and whether a
    \* file or the embeddings API failed since then
    lastOutcome, indexChunks, epochLoads, edited, faulted

chunkVars == <<cText, cBlocks, cB, cI, cOut, cPc>>
rankVars == <<rQ, rK, rHits, rPc>>
kwVars == <<knowledgeChunks, kQuestion, kMax, kHits, kPc, kChat>>
srvVars == <<dirExists, pdfParse, fs, index, loads, started, listening, chat,
             reloadsLeft, editsLeft, chatsLeft,
             lastOutcome, indexChunks, epochLoads, edited, faulted>>
vars == <<chunkVars, knowledge, embeddings, rankVars, kwVars, srvVars>>

\* ------------------------------------------------------------------ helpers
Min(a, b) == IF a < b THEN a ELSE b

Range(s) == {s[n] : n \in 1..Len(s)}

\* ------------------------------------------------- pushChunks (lines 78-99)
MAX == 800
OVERLAP == 150

\* b.slice(i, j) of a block b = [tag, len]
slice(b, i, j) == [tag |-> b.tag, from |-> Min(i, b.len), to |-> Min(j, b.len)]

\* text.replace(/\r/g,'').split(/\n{2,}/).map(s => s.trim()).filter(Boolean)
IsNonEmptyPart(p) == p.len > 0
splitBlocks(text) == SelectSeq(text, IsNonEmptyPart)

\* i += (MAX - OVERLAP)
NoOverlap(i) == i + MAX
nextOffset(i) == i + (MAX - OVERLAP)

\* if (i + MAX >= b.length) break
reachedEnd(b, i) == i + MAX >= b.len

\* the chunks pushChunks pushes for one block, from offset i on
RECURSIVE slicesFrom(_, _, _)
slicesFrom(b, i, source) ==
    IF ~(i < b.len) THEN <<>>
    ELSE <<[text |-> slice(b, i, i + MAX), source |-> source]>>
         \o (IF reachedEnd(b, i) THEN <<>> ELSE slicesFrom(b, nextOffset(i), source))

blockChunks(b, source) ==
    IF b.len <= MAX THEN <<[text |-> slice(b, 0, b.len), source |-> source]>>
    ELSE slicesFrom(b, 0, source)

RECURSIVE blocksChunks(_, _)
blocksChunks(blocks, source) ==
    IF blocks = <<>> THEN <<>>
    ELSE blockChunks(Head(blocks), source) \o blocksChunks(Tail(blocks), source)

\* pushChunks(text, source) as one synchronous call: the chunks it appends
pushChunks(text, source) ==
    IF text = <<>> THEN <<>> ELSE blocksChunks(splitBlocks(text), source)

\* -------------------------------------------- pushChunks, one step at a time
MaxBlockLen == 2200
MaxParts == 2

\* lengths around the places where the number of slices changes
EdgeLens == {0, 1, MAX, MAX + 1, 2 * MAX - OVERLAP, 2 * MAX - OVERLAP + 1}

RankIdle ==
    /\ rQ = <<>>
    /\ rK = 0
    /\ rHits = <<>>
    /\ rPc = "idle"

KwIdle ==
    /\ knowledgeChunks = <<>>
    /\ kQuestion = <<>>
    /\ kMax = 0
    /\ kHits = <<>>
    /\ kPc = "idle"
    /\ kChat = [pc |-> "idle"]

NoIndex == [exists |-> FALSE]

SrvIdle ==
    /\ dirExists = FALSE
    /\ pdfParse = FALSE
    /\ fs = <<>>
    /\ index = NoIndex
    /\ loads = <<>>
    /\ started = FALSE
    /\ listening = FALSE
    /\ chat = [pc |-> "idle"]
    /\ reloadsLeft = 0
    /\ editsLeft = 0
    /\ chatsLeft = 0
    /\ lastOutcome = "none"
    /\ indexChunks = 0
    /\ epochLoads = 0
    /\ edited = FALSE
    /\ faulted = FALSE

ChunkTexts ==
    {<<>>}
    \cup {<<[tag |-> 1, len |-> L]>> : L \in 0..MaxBlockLen}
    \cup UNION {{[n \in 1..k |-> [tag |-> n, len |-> f[n]]] : f \in [1..k -> EdgeLens]}
                : k \in 2..MaxParts}

ChunkIdle ==
    /\ cText = <<>>
    /\ cBlocks = <<>>
    /\ cB = 0
    /\ cI = 0
    /\ cOut = <<>>
    /\ cPc = "idle"

InitChunk ==
    /\ cText \in ChunkTexts
    /\ cBlocks = <<>>
    /\ cB = 0
    /\ cI = 0
    /\ cOut = <<>>
    /\ cPc = "start"
    /\ knowledge = <<>>
    /\ embeddings = <<>>
    /\ RankIdle
    /\ KwIdle
    /\ SrvIdle

\* lines 79-81: if (!text) return; otherwise split into blocks
ChunkStart ==
    /\ cPc = "start"
    /\ IF cText = <<>>
       THEN /\ cPc' = "done"
            /\ UNCHANGED <<cBlocks, cB>>
       ELSE /\ cBlocks' = splitBlocks(cText)
            /\ cB' = 1
            /\ cPc' = "block"
    /\ UNCHANGED <<cText, cI, cOut>>

\* lines 86-88: a block of at most MAX characters is pushed whole
ChunkWhole ==
    /\ cPc = "block"
    /\ cB <= Len(cBlocks)
    /\ cBlocks[cB].len <= MAX
    /\ cOut' = Append(cOut, [text |-> slice(cBlocks[cB], 0, cBlocks[cB].len), source |-> "src"])
    /\ cB' = cB + 1
    /\ UNCHANGED <<cText, cBlocks, cI, cPc>>

\* lines 89-90: a longer block enters the while loop with i = 0
ChunkEnterLoop ==
    /\ cPc = "block"
    /\ cB <= Len(cBlocks)
    /\ cBlocks[cB].len > MAX
    /\ cI' = 0
    /\ cPc' = "slice"
    /\ UNCHANGED <<cText, cBlocks, cB, cOut>>

\* lines 91-96: one turn of the while loop
ChunkSlice ==
    /\ cPc = "slice"
    /\ LET b == cBlocks[cB] IN
       IF ~(cI < b.len)
       THEN /\ cPc' = "block"
            /\ cB' = cB + 1
            /\ UNCHANGED <<cI, cOut>>
       ELSE /\ cOut' = Append(cOut, [text |-> slice(b, cI, cI + MAX), source |-> "src"])
            /\ IF reachedEnd(b, cI)
               THEN /\ cPc' = "block"
                    /\ cB' = cB + 1
                    /\ cI' = cI
               ELSE /\ cI' = nextOffset(cI)
                    /\ UNCHANGED <<cPc, cB>>
    /\ UNCHANGED <<cText, cBlocks>>

\* the for loop over the blocks is over
ChunkReturn ==
    /\ cPc = "block"
    /\ cB > Len(cBlocks)
    /\ cPc' = "done"
    /\ UNCHANGED <<cText, cBlocks, cB, cI, cOut>>

OthersChunk == UNCHANGED <<knowledge, embeddings, rankVars, kwVars, srvVars>>

NextChunk ==
    \/ ChunkStart /\ OthersChunk
    \/ ChunkWhole /\ OthersChunk
    \/ ChunkEnterLoop /\ OthersChunk
    \/ ChunkSlice /\ OthersChunk
    \/ ChunkReturn /\ OthersChunk

SpecChunk == InitChunk /\ [][NextChunk]_vars

\* the chunks pushed so far that come from block b
ChunksOf(out, b) == SelectSeq(out, LAMBDA c : c.text.tag = b.tag)

\* C4, one block whose pushing is over
BlockChunked(b, cs) ==
    /\ Len(cs) >= 1
    /\ \A n \in 1..Len(cs) :
          /\ cs[n].text.from < cs[n].text.to
          /\ cs[n].text.to - cs[n].text.from <= MAX
    /\ b.len <= MAX => cs = <<[text |-> [tag |-> b.tag, from |-> 0, to |-> b.len], source |-> "src"]>>
    /\ b.len > MAX =>
          /\ \A n \in 1..Len(cs) : cs[n].text.from = (n - 1) * 650
          /\ \A n \in 1..(Len(cs) - 1) :
                /\ cs[n].text.to < b.len
                /\ cs[n].text.to - cs[n + 1].text.from = 150
          /\ cs[Len(cs)].text.to = b.len
          /\ \A p \in 0..(b.len - 1) :
                \E n \in 1..Len(cs) : cs[n].text.from <= p /\ p < cs[n].text.to

\* C4: pushChunks stores every block of at most 800 characters as one chunk and
\* splits a longer block of length L into slices at offsets 0, 650, 1300, ...
\* that stop with the first slice reaching L: chunks are non-empty and at most
\* 800 long, consecutive slices share exactly 150 characters, the last slice
\* ends at L, every character is covered, and the loop terminates (inside the
\* loop i is below L and is 650 times the number of slices pushed, and the call
\* can always take its next step until it has returned).
C4_Chunking ==
    /\ cPc = "done" =>
          /\ \A n \in 1..Len(cBlocks) : BlockChunked(cBlocks[n], ChunksOf(cOut, cBlocks[n]))
          /\ \A n \in 1..Len(cOut) : \E m \in 1..Len(cBlocks) : cOut[n].text.tag = cBlocks[m].tag
          /\ \A n \in 1..(Len(cOut) - 1) : cOut[n].text.tag <= cOut[n + 1].text.tag
          /\ cOut = pushChunks(cText, "src")
    /\ cPc = "slice" =>
          /\ cI < cBlocks[cB].len
          /\ cI = 650 * Len(ChunksOf(cOut, cBlocks[cB]))
    /\ cPc # "done" => ENABLED NextChunk

\* a block longer than two slices has been split and the call has returned
C4_Witness ==
    /\ cPc = "done"
    /\ \E n \in 1..Len(cBlocks) :
          /\ cBlocks[n].len > 2 * MAX
          /\ Len(ChunksOf(cOut, cBlocks[n])) >= 3


\* ------------------------------------------------ cosineSim (lines 137-144)
\* Vectors are tuples of integers.  The quotient is kept in thousandths:
\* 1000 * dot / (sqrt(na) * sqrt(nb) + 1e-8), where a zero denominator gives 0
\* (dot is 0 and the 1e-8 keeps the division defined).
Fix == 1000

RECURSIVE SumTo(_, _)
SumTo(f, n) == IF n = 0 THEN 0 ELSE f[n] + SumTo(f, n - 1)

\* floor of the square root, by bisection: lo * lo <= x < hi * hi
RECURSIVE ISqrtIn(_, _, _)
ISqrtIn(x, lo, hi) ==
    IF hi - lo <= 1 THEN lo
    ELSE LET mid == (lo + hi) \div 2
         IN  IF mid * mid <= x THEN ISqrtIn(x, mid, hi) ELSE ISqrtIn(x, lo, mid)

\* 46340 * 46340 is the largest square below 2^31
ISqrt(x) == ISqrtIn(x, 0, Min(x + 1, 46340))

cosineSim(a, b) ==
    LET dot == SumTo([n \in 1..Len(a) |-> a[n] * b[n]], Len(a))
        na == SumTo([n \in 1..Len(a) |-> a[n] * a[n]], Len(a))
        nb == SumTo([n \in 1..Len(a) |-> b[n] * b[n]], Len(a))
        den == ISqrt(na * nb * Fix * Fix)
    IN  IF den = 0 THEN 0 ELSE (dot * Fix * Fix) \div den

\* ------------------------------ findRelevantChunksEmbedding (lines 146-159)
\* Array.prototype.sort is stable.  order is a sequence of element indexes and
\* key[i] the number the comparator subtracts, (a, b) => key[b] - key[a]: an
\* element goes in front of the first element the comparator puts after it.
ascending(a, b) == a - b
descending(a, b) == b - a

RECURSIVE InsertSorted(_, _, _)
InsertSorted(sorted, x, key) ==
    IF sorted = <<>> THEN <<x>>
    ELSE IF descending(key[Head(sorted)], key[x]) > 0
         THEN <<x>> \o sorted
         ELSE <<Head(sorted)>> \o InsertSorted(Tail(sorted), x, key)

RECURSIVE StableSort(_, _)
StableSort(order, key) ==
    IF order = <<>> THEN <<>>
    ELSE InsertSorted(StableSort(SubSeq(order, 1, Len(order) - 1), key),
                      order[Len(order)], key)

\* arr.slice(0, k)
Take(s, k) == SubSeq(s, 1, Min(k, Len(s)))

\* knowledge[i]: undefined beyond the end of the array (i counts from 1 here)
Undefined == [undefined |-> TRUE]
at(arr, i) == IF i \in 1..Len(arr) THEN arr[i] ELSE Undefined

\* line 154: embeddings.map((vec, i) => ({ i, s: cosineSim(qVec, vec) }))
RECURSIVE simsOf(_, _)
simsOf(qVec, embs) ==
    IF embs = <<>> THEN <<>>
    ELSE <<cosineSim(qVec, Head(embs))>> \o simsOf(qVec, Tail(embs))

\* lines 153-157, with the arrays as they are when the await returns
topChunks(kn, embs, qVec, k) ==
    LET s == simsOf(qVec, embs)
        ranked == Take(StableSort([i \in 1..Len(embs) |-> i], s), k)
    IN  [n \in 1..Len(ranked) |-> at(kn, ranked[n])]

\* ---------------------------- findRelevantChunksEmbedding on bounded inputs
MaxRank == 3
MaxK == 3

Vecs == {<<1, 0>>, <<0, 1>>, <<1, 1>>, <<-1, 0>>, <<0, 0>>}

SeqsUpTo(S, n) == UNION {[1..m -> S] : m \in 0..n}

RankChunk(n) == [text |-> [tag |-> n, from |-> 0, to |-> 1], source |-> "src"]

InitRank ==
    /\ ChunkIdle
    /\ KwIdle
    /\ SrvIdle
    /\ knowledge \in {[n \in 1..m |-> RankChunk(n)] : m \in 0..MaxRank}
    /\ embeddings \in SeqsUpTo(Vecs, MaxRank)
    /\ rQ \in Vecs
    /\ rK \in 0..MaxK
    /\ rHits = <<>>
    /\ rPc = "call"

\* line 147: if (!knowledge.length || !embeddings.length) return []
RankEmpty ==
    /\ rPc = "call"
    /\ Len(knowledge) = 0 \/ Len(embeddings) = 0
    /\ rHits' = <<>>
    /\ rPc' = "returned"
    /\ UNCHANGED <<rQ, rK>>

\* line 148: the call awaits client.embeddings.create
RankAwait ==
    /\ rPc = "call"
    /\ ~(Len(knowledge) = 0 \/ Len(embeddings) = 0)
    /\ rPc' = "await"
    /\ UNCHANGED <<rQ, rK, rHits>>

\* lines 152-158: the question's vector arrives
RankResume ==
    /\ rPc = "await"
    /\ rHits' = topChunks(knowledge, embeddings, rQ, rK)
    /\ rPc' = "returned"
    /\ UNCHANGED <<rQ, rK>>

\* line 148: client.embeddings.create rejects
RankThrow ==
    /\ rPc = "await"
    /\ rPc' = "threw"
    /\ UNCHANGED <<rQ, rK, rHits>>

OthersRank == UNCHANGED <<chunkVars, knowledge, embeddings, kwVars, srvVars>>

NextRank ==
    \/ RankEmpty /\ OthersRank
    \/ RankAwait /\ OthersRank
    \/ RankResume /\ OthersRank
    \/ RankThrow /\ OthersRank

SpecRank == InitRank /\ [][NextRank]_vars

Injections(m, n) == {f \in [1..m -> 1..n] : \A x, y \in 1..m : f[x] = f[y] => x = y}

\* C1: findRelevantChunksEmbedding returns the empty list when no chunks or no
\* embeddings are loaded; otherwise it returns min(k, number of embeddings)
\* entries, the entry at place n being knowledge[i] for a distinct embedding
\* index i, in non-increasing similarity to the question, and no embedding left
\* out is strictly more similar than one that is returned.
C1_TopK ==
    rPc = "returned" =>
        IF Len(knowledge) = 0 \/ Len(embeddings) = 0
        THEN rHits = <<>>
        ELSE /\ Len(rHits) = Min(rK, Len(embeddings))
             /\ \E f \in Injections(Len(rHits), Len(embeddings)) :
                   /\ \A n \in 1..Len(rHits) : rHits[n] = at(knowledge, f[n])
                   /\ \A n \in 1..(Len(rHits) - 1) :
                         cosineSim(rQ, embeddings[f[n]]) >= cosineSim(rQ, embeddings[f[n + 1]])
                   /\ \A j \in 1..Len(embeddings) :
                         (\A n \in 1..Len(rHits) : f[n] # j) =>
                            \A n \in 1..Len(rHits) :
                               cosineSim(rQ, embeddings[j]) <= cosineSim(rQ, embeddings[f[n]])

\* a call that ranked three embeddings of different similarity and kept two
C1_Witness ==
    /\ rPc = "returned"
    /\ Len(embeddings) = 3
    /\ Len(knowledge) = 3
    /\ rK = 2
    /\ Len(rHits) = 2
    /\ cosineSim(rQ, embeddings[1]) < cosineSim(rQ, embeddings[2])
    /\ cosineSim(rQ, embeddings[2]) < cosineSim(rQ, embeddings[3])


\* ------------------------------------- strings of the keyword retriever
\* A string is the sequence of its characters.
UpperCase == <<"A", "B", "C", "D", "E", "F", "G", "H", "I", "J", "K", "L", "M", "N", "O", "P", "Q", "R", "S", "T", "U", "V", "W", "X", "Y", "Z">>
LowerCase == <<"a", "b", "c", "d", "e", "f", "g", "h", "i", "j", "k", "l", "m", "n", "o", "p", "q", "r", "s", "t", "u", "v", "w", "x", "y", "z">>
Digits == {"0", "1", "2", "3", "4", "5", "6", "7", "8", "9"}

Letters == Range(UpperCase) \cup Range(LowerCase)
IsLetter(c) == c \in Letters
IsNumber(c) == c \in Digits
\* \s
IsSpace(c) == c \in {" ", "\n", "\t", "\r"}
\* \w
IsWordChar(c) == IsLetter(c) \/ IsNumber(c) \/ c = "_"

LowerOf == [c \in Range(UpperCase) |-> LowerCase[CHOOSE n \in 1..Len(UpperCase) : UpperCase[n] = c]]
toLowerCase(c) == IF c \in DOMAIN LowerOf THEN LowerOf[c] ELSE c

\* s.replace(/\s+/g, ' ')
RECURSIVE collapseSpaces(_)
collapseSpaces(s) ==
    IF s = <<>> THEN <<>>
    ELSE IF IsSpace(Head(s))
         THEN IF Len(s) > 1 /\ IsSpace(s[2])
              THEN collapseSpaces(Tail(s))
              ELSE <<" ">> \o collapseSpaces(Tail(s))
         ELSE <<Head(s)>> \o collapseSpaces(Tail(s))

\* s.trim()
RECURSIVE trimStart(_)
trimStart(s) == IF s # <<>> /\ IsSpace(Head(s)) THEN trimStart(Tail(s)) ELSE s

RECURSIVE trimEnd(_)
trimEnd(s) ==
    IF s # <<>> /\ IsSpace(s[Len(s)]) THEN trimEnd(SubSeq(s, 1, Len(s) - 1)) ELSE s

trim(s) == trimEnd(trimStart(s))

\* lines 341-345: norm
norm(s) ==
    LET lowered == [n \in 1..Len(s) |-> toLowerCase(s[n])]
        cleaned == [n \in 1..Len(s) |->
                       IF IsLetter(lowered[n]) \/ IsNumber(lowered[n]) \/ IsSpace(lowered[n])
                       THEN lowered[n] ELSE " "]
    IN  trim(collapseSpaces(cleaned))

\* s.split(' ')
RECURSIVE splitSpace(_, _)
splitSpace(s, word) ==
    IF s = <<>> THEN <<word>>
    ELSE IF Head(s) = " "
         THEN <<word>> \o splitSpace(Tail(s), <<>>)
         ELSE splitSpace(Tail(s), Append(word, Head(s)))

\* text.includes(t)
includes(text, t) ==
    \/ t = <<>>
    \/ \E p \in 0..(Len(text) - Len(t)) :
          text[p + 1] = t[1] /\ SubSeq(text, p + 1, p + Len(t)) = t

\* a word boundary (\b) in front of place p, and behind place p
boundaryBefore(s, p) == p = 1 \/ ~IsWordChar(s[p - 1])
boundaryAfter(s, p) == p = Len(s) \/ ~IsWordChar(s[p + 1])

\* /\bre[\s-]?test\b/.test(s)
matchAt(s, p, w) == p + Len(w) - 1 <= Len(s) /\ SubSeq(s, p, p + Len(w) - 1) = w

hasRetest(s) ==
    \E p \in 1..Len(s) :
       /\ s[p] = "r"
       /\ boundaryBefore(s, p)
       /\ \/ /\ matchAt(s, p, <<"r", "e", "t", "e", "s", "t">>)
             /\ boundaryAfter(s, p + 5)
          \/ /\ matchAt(s, p, <<"r", "e">>)
             /\ p + 2 <= Len(s)
             /\ IsSpace(s[p + 2]) \/ s[p + 2] = "-"
             /\ matchAt(s, p + 3, <<"t", "e", "s", "t">>)
             /\ boundaryAfter(s, p + 6)

\* /\b\d+/.test(s)
hasNumber(s) == \E p \in 1..Len(s) : IsNumber(s[p]) /\ boundaryBefore(s, p)

\* lines 349-358
synonymSets == <<
    {<<"r", "e", "t", "e", "s", "t">>,
      <<"r", "e", " ", "t", "e", "s", "t">>,
      <<"r", "e", "-", "t", "e", "s", "t">>,
      <<"r", "e", "t", "a", "k", "e">>,
      <<"r", "e", " ", "t", "a", "k", "e">>,
      <<"r", "e", "-", "t", "a", "k", "e">>},
    {<<"f", "e", "e">>,
      <<"c", "o", "s", "t">>,
      <<"c", "h", "a", "r", "g", "e">>,
      <<"p", "a", "y", "m", "e", "n", "t">>,
      <<"p", "r", "i", "c", "e">>},
    {<<"w", "a", "i", "t">>,
      <<"w", "a", "i", "t", "i", "n", "g">>,
      <<"d", "e", "l", "a", "y">>,
      <<"h", "o", "l", "d">>,
      <<"g", "a", "p">>,
      <<"c", "o", "o", "l", "d", "o", "w", "n">>,
      <<"c", "o", "o", "l", " ", "d", "o", "w", "n">>},
    {<<"p", "e", "r", "i", "o", "d">>,
      <<"w", "i", "n", "d", "o", "w">>,
      <<"t", "i", "m", "e", "f", "r", "a", "m", "e">>,
      <<"t", "i", "m", "e", "l", "i", "n", "e">>},
    {<<"h", "o", "u", "r", "s">>,
      <<"r", "e", "q", "u", "i", "r", "e", "m", "e", "n", "t", "s">>,
      <<"p", "r", "e", "r", "e", "q", "u", "i", "s", "i", "t", "e", "s">>,
      <<"p", "r", "e", "r", "e", "q">>},
    {<<"p", "o", "l", "i", "c", "y">>,
      <<"r", "u", "l", "e">>,
      <<"g", "u", "i", "d", "e", "l", "i", "n", "e">>,
      <<"g", "u", "i", "d", "a", "n", "c", "e">>},
    {<<"e", "x", "a", "m">>,
      <<"p", "r", "a", "c", "t", "i", "c", "a", "l">>,
      <<"t", "e", "s", "t">>,
      <<"a", "s", "s", "e", "s", "s", "m", "e", "n", "t">>},
    {<<"s", "c", "h", "e", "d", "u", "l", "e">>,
      <<"b", "o", "o", "k">>,
      <<"a", "r", "r", "a", "n", "g", "e">>}>>

\* lines 367-379
phraseBoosts == <<
    <<"r", "e", "t", "e", "s", "t", " ", "f", "e", "e">>,
    <<"r", "e", " ", "t", "e", "s", "t", " ", "f", "e", "e">>,
    <<"r", "e", "-", "t", "e", "s", "t", " ", "f", "e", "e">>,
    <<"w", "a", "i", "t", "i", "n", "g", " ", "p", "e", "r", "i", "o", "d">>,
    <<"w", "a", "i", "t", " ", "p", "e", "r", "i", "o", "d">>,
    <<"r", "e", "t", "e", "s", "t", " ", "w", "a", "i", "t", "i", "n", "g">>,
    <<"r", "e", " ", "t", "e", "s", "t", " ", "w", "a", "i", "t", "i", "n", "g">>,
    <<"r", "e", "-", "t", "e", "s", "t", " ", "w", "a", "i", "t", "i", "n", "g">>,
    <<"h", "o", "w", " ", "m", "a", "n", "y", " ", "h", "o", "u", "r", "s">>,
    <<"h", "o", "u", "r", "s", " ", "t", "o", " ", "r", "e", "t", "e", "s", "t">>,
    <<"h", "o", "u", "r", "s", " ", "b", "e", "f", "o", "r", "e", " ", "r", "e", "t", "e", "s", "t">>>>


\* lines 360-365: the question's tokens, then the synonym sets one by one
baseTokens(q) == {w \in Range(splitSpace(q, <<>>)) : Len(w) > 2}

RECURSIVE expandFrom(_, _)
expandFrom(tokens, n) ==
    IF n > Len(synonymSets) THEN tokens
    ELSE expandFrom(IF \E w \in synonymSets[n] : w \in tokens
                    THEN tokens \cup synonymSets[n]
                    ELSE tokens,
                    n + 1)

qTokens(q) == expandFrom(baseTokens(q), 1)

\* lines 381-398: the score of one chunk c for the normalised question q and
\* its expanded tokens
score(q, tokens, c) ==
    LET text == norm(c)
    IN  Cardinality({t \in tokens : includes(text, t)})
        + 6 * Cardinality({n \in 1..Len(phraseBoosts) : includes(text, phraseBoosts[n])})
        + (IF hasRetest(q) /\ hasRetest(text) THEN 4 ELSE 0)
        + (IF hasNumber(q) /\ hasNumber(text) THEN 2 ELSE 0)

\* line 403: .filter(x => x.score > 0)
keepAll(x) == TRUE
keepScore(x) == x > 0

\* lines 381 and 398: knowledgeChunks.map(c => ... score)
RECURSIVE scoresOf(_, _, _)
scoresOf(q, tokens, chunks) ==
    IF chunks = <<>> THEN <<>>
    ELSE <<score(q, tokens, Head(chunks))>> \o scoresOf(q, tokens, Tail(chunks))

\* lines 338-339 and 400-404
findRelevantChunks(chunks, question, max) ==
    IF Len(chunks) = 0 THEN <<>>
    ELSE LET q == norm(question)
             scored == scoresOf(q, qTokens(q), chunks)
             top == Take(StableSort([n \in 1..Len(chunks) |-> n], scored), max)
             kept == SelectSeq(top, LAMBDA n : keepScore(scored[n]))
         IN  [n \in 1..Len(kept) |-> chunks[kept[n]]]

\* ----------------------------------------- the model's answer (both versions)
\* What client.responses.create resolves to: output_text, whether output is an
\* array and the c.text.value strings of its content, and response.output_text.
ModelOutputs == {
    [output_text |-> <<"O", "k">>, isArray |-> FALSE, values |-> <<>>, response_text |-> <<>>],
    [output_text |-> <<>>, isArray |-> TRUE, values |-> <<<<"H", "i">>, <<>>>>, response_text |-> <<>>],
    [output_text |-> <<>>, isArray |-> TRUE, values |-> <<<<" ">>, <<>>>>, response_text |-> <<>>],
    [output_text |-> <<>>, isArray |-> FALSE, values |-> <<>>, response_text |-> <<"O", "k">>],
    [output_text |-> <<>>, isArray |-> FALSE, values |-> <<>>, response_text |-> <<>>]}

\* arr.join('\n')
RECURSIVE join(_)
join(arr) ==
    IF arr = <<>> THEN <<>>
    ELSE IF Len(arr) = 1 THEN arr[1]
    ELSE arr[1] \o <<"\n">> \o join(Tail(arr))

\* line 450 (the apostrophe is the source's right single quotation mark)
kwFallback ==
    <<"I", " ", "d", "o", "n", "'", "t", " ", "h", "a", "v", "e", " ", "t", "h", "a",
      "t", " ", "i", "n", " ", "t", "h", "e", " ", "R", "P", "T", "T", " ", "G", "u",
      "i", "d", "e", ".">>

\* lines 436-450
kwReply(out) ==
    LET r1 == IF out.output_text # <<>> THEN out.output_text
              ELSE IF out.isArray THEN trim(join(out.values))
              ELSE <<>>
        r2 == IF r1 = <<>> /\ out.response_text # <<>> THEN out.response_text ELSE r1
    IN  IF r2 # <<>> THEN r2 ELSE kwFallback

\* ------------------------------ the keyword server on bounded inputs
MaxKwChunks == 3
MaxKwMax == 3

\* sample passages of a knowledge file
SampleChunks == {
    <<"R", "e", "t", "e", "s", "t", " ", "f", "e", "e", " ", "i", "s", " ", "$", "5", "0", ".">>,
    <<"T", "h", "e", " ", "w", "a", "i", "t", "i", "n", "g", " ", "p", "e", "r", "i", "o", "d", "\n",
      "a", "p", "p", "l", "i", "e", "s", ".">>,
    <<"S", "t", "u", "d", "i", "o", " ", "o", "p", "e", "n", "s", " ", "a", "t", " ", "9", ".">>,
    <<"B", "e", " ", "k", "i", "n", "d", ".">>}

\* sample bodies of req.body.message; <<>> is also a missing message
SampleQuestions == {
    <<>>,
    <<"I", "s", " ", "i", "t", " ", "o", "k", "?">>,
    <<"4", "2">>,
    <<"W", "h", "a", "t", " ", "i", "s", " ", "t", "h", "e", " ", "f", "e", "e", "?">>,
    <<"R", "e", "-", "t", "e", "s", "t", "?">>,
    <<"k", "i", "n", "d">>}

InitKw ==
    /\ ChunkIdle
    /\ RankIdle
    /\ SrvIdle
    /\ knowledge = <<>>
    /\ embeddings = <<>>
    /\ knowledgeChunks \in SeqsUpTo(SampleChunks, MaxKwChunks)
    /\ kQuestion \in SampleQuestions
    /\ kMax \in 0..MaxKwMax
    /\ kHits = <<>>
    /\ kPc = "call"
    /\ kChat = [pc |-> "idle"]

\* findRelevantChunks(question, max) called and returned
KwFind ==
    /\ kPc = "call"
    /\ kHits' = findRelevantChunks(knowledgeChunks, kQuestion, kMax)
    /\ kPc' = "returned"
    /\ UNCHANGED <<knowledgeChunks, kQuestion, kMax, kChat>>

\* lines 411-433: POST /api/chat up to the await of client.responses.create
KwChatReceive ==
    /\ kChat.pc = "idle"
    /\ LET userMessage == kQuestion
           hits == findRelevantChunks(knowledgeChunks, userMessage, 5)
       IN  kChat' = [pc |-> "model", hits |-> hits, hasReference |-> Len(hits) > 0]
    /\ UNCHANGED <<knowledgeChunks, kQuestion, kMax, kHits, kPc>>

\* lines 436-453: the model answered
KwChatReply ==
    /\ kChat.pc = "model"
    /\ \E out \in ModelOutputs :
          kChat' = [pc |-> "responded", hits |-> kChat.hits, hasReference |-> kChat.hasReference,
                    status |-> 200, reply |-> kwReply(out), error |-> <<>>]
    /\ UNCHANGED <<knowledgeChunks, kQuestion, kMax, kHits, kPc>>

\* lines 454-457: client.responses.create rejected
KwChatFail ==
    /\ kChat.pc = "model"
    /\ kChat' = [pc |-> "responded", hits |-> kChat.hits, hasReference |-> kChat.hasReference,
                 status |-> 500, reply |-> <<>>, error |-> <<"e", "r", "r">>]
    /\ UNCHANGED <<knowledgeChunks, kQuestion, kMax, kHits, kPc>>

OthersKw == UNCHANGED <<chunkVars, knowledge, embeddings, rankVars, srvVars>>

NextKw ==
    \/ KwFind /\ OthersKw
    \/ KwChatReceive /\ OthersKw
    \/ KwChatReply /\ OthersKw
    \/ KwChatFail /\ OthersKw

SpecKw == InitKw /\ [][NextKw]_vars

\* place x comes before place y in the ranking by the scores sc: a higher
\* score, or the same score and earlier in the corpus
RankedBefore(sc, x, y) == sc[x] > sc[y] \/ (sc[x] = sc[y] /\ x < y)

kwScores == scoresOf(norm(kQuestion), qTokens(norm(kQuestion)), knowledgeChunks)

\* C2: findRelevantChunks(question, max) returns at most max chunks, none of
\* score 0, in non-increasing score order with equal scores in corpus order,
\* and they are the first max of the positive-scoring chunks ranked that way:
\* every positive-scoring chunk left out ranks behind every chunk returned,
\* and is left out only when max chunks are returned.
C2_TopPositive ==
    kPc = "returned" =>
        LET sc == kwScores IN
        /\ Len(kHits) <= kMax
        /\ \E f \in Injections(Len(kHits), Len(knowledgeChunks)) :
              /\ \A n \in 1..Len(kHits) :
                    /\ kHits[n] = knowledgeChunks[f[n]]
                    /\ sc[f[n]] > 0
              /\ \A n \in 1..(Len(kHits) - 1) : RankedBefore(sc, f[n], f[n + 1])
              /\ \A j \in 1..Len(knowledgeChunks) :
                    (sc[j] > 0 /\ \A n \in 1..Len(kHits) : f[n] # j) =>
                       /\ Len(kHits) = kMax
                       /\ \A n \in 1..Len(kHits) : RankedBefore(sc, f[n], j)

\* two chunks are returned, a third positive-scoring one is cut by max, and
\* the two returned differ in score
C2_Witness ==
    /\ kPc = "returned"
    /\ kMax = 2
    /\ Len(kHits) = 2
    /\ LET sc == kwScores IN
       /\ Cardinality({j \in 1..Len(knowledgeChunks) : sc[j] > 0}) = 3
       /\ \E x, y \in 1..Len(knowledgeChunks) : sc[x] > sc[y] /\ sc[y] > 0

\* C3: every chunk findRelevantChunks returns contains a token of the question
\* (after synonym expansion); a question with no usable token yields no chunk
\* and its chat prompt carries no Studio Reference section.
C3_OnlyRelevant ==
    /\ kPc = "returned" =>
          \A n \in 1..Len(kHits) :
             \E t \in qTokens(norm(kQuestion)) : includes(norm(kHits[n]), t)
    /\ (kChat.pc # "idle" /\ qTokens(norm(kQuestion)) = {}) =>
          (kChat.hits = <<>> /\ ~kChat.hasReference)

\* ------------------------------------------------- the embedding server
\* line 193 (the apostrophe is the source's right single quotation mark)
embFallback ==
    <<"I", " ", "d", "o", "n", "'", "t", " ", "h", "a", "v", "e", " ", "t", "h", "a",
      "t", " ", "i", "n", " ", "t", "h", "e", " ", "R", "P", " ", "S", "t", "u", "d",
      "i", "o", " ", "d", "o", "c", "s", ".">>

\* lines 185-193
embReply(out) ==
    LET r == IF out.output_text # <<>> THEN out.output_text
             ELSE IF out.isArray THEN trim(join(out.values))
             ELSE <<>>
    IN  IF r # <<>> THEN r ELSE embFallback

\* What fs.readdirSync(KNOWLEDGE_DIR) lists, in its order: a text file, a
\* subdirectory, a PDF, and .index.json once it has been written.  A name is
\* [base, ext]; hidden is f.startsWith('.').
DirEntries == <<[base |-> "a", ext |-> "txt", isFile |-> TRUE, hidden |-> FALSE],
                [base |-> "old", ext |-> "", isFile |-> FALSE, hidden |-> FALSE],
                [base |-> "b", ext |-> "pdf", isFile |-> TRUE, hidden |-> FALSE]>>
IndexEntry == [base |-> ".index", ext |-> "json", isFile |-> TRUE, hidden |-> TRUE]

readdirSync(idx) == IF idx = NoIndex THEN DirEntries ELSE DirEntries \o <<IndexEntry>>

\* line 45: .filter(f => !f.startsWith('.'))
visible(entries) == SelectSeq(entries, LAMBDA f : ~f.hidden)

\* lines 33-35: normName strips the extension
normName(f) == f.base

\* the documents a file can hold
DocX == <<[tag |-> "x", len |-> 3]>>
DocY == <<[tag |-> "y", len |-> 5], [tag |-> "e", len |-> 0]>>
DocZ == <<[tag |-> "z", len |-> MAX + 1]>>
DocP == <<[tag |-> "p", len |-> 7]>>

\* The embeddings API as a function of the text: one vector per input, equal
\* texts giving equal vectors and the texts of Docs giving different ones.
TagCode == [x |-> 1, y |-> 2, z |-> 3, p |-> 4, e |-> 5]
Embed(text) == <<TagCode[text.tag], text.from \div (MAX - OVERLAP) + 1>>

RECURSIVE EmbedAll(_)
EmbedAll(texts) ==
    IF texts = <<>> THEN <<>> ELSE <<Embed(Head(texts))>> \o EmbedAll(Tail(texts))

\* line 116: knowledge.map(k => k.text)
RECURSIVE textsOf(_)
textsOf(kn) == IF kn = <<>> THEN <<>> ELSE <<Head(kn).text>> \o textsOf(Tail(kn))

\* lines 47-71: the for loop over the files from entry i on, run until it
\* awaits pdfParse, ends, or throws.  files maps a base name to [doc, cond]:
\* the document the file holds now and its condition, "ok", "dangling" (a
\* link to nothing: fs.statSync throws), "unreadable" (fs.readFileSync
\* throws) or "corrupt" (pdfParse rejects).  hit: a file failed on the way.
RECURSIVE runFiles(_, _, _, _, _)
runFiles(kn, entries, i, files, parser) ==
    IF i > Len(entries) THEN [stop |-> "end", kn |-> kn, idx |-> i, hit |-> FALSE]
    ELSE LET f == entries[i]
             rest == runFiles(kn, entries, i + 1, files, parser)
             caught == [rest EXCEPT !.hit = TRUE]
         IN  IF f.base \in DOMAIN files /\ files[f.base].cond = "dangling"
             THEN [stop |-> "throw", kn |-> kn, idx |-> i, hit |-> TRUE]
             ELSE IF ~f.isFile THEN rest
             ELSE IF f.ext = "txt"
                  THEN IF files[f.base].cond = "unreadable" THEN caught
                       ELSE runFiles(kn \o pushChunks(files[f.base].doc, normName(f)),
                                     entries, i + 1, files, parser)
             ELSE IF f.ext = "pdf"
                  THEN IF ~parser THEN rest
                       ELSE IF files[f.base].cond = "unreadable" THEN caught
                       ELSE [stop |-> "await", kn |-> kn, idx |-> i, hit |-> FALSE]
             ELSE rest

\* lines 105-113: the cached index is used when it parses and has as many
\* vectors as there are chunks
cacheMatches(idx, kn) == idx # NoIndex /\ Len(idx.embeddings) = Len(kn)

BATCH == 64

\* The load's synchronous run from file entry i on, through the start of
\* buildOrLoadEmbeddings (lines 47-74, 103-120): the new knowledge, embeddings
\* and .index.json, the load if it now awaits, and how it ended if it ended.
\* data is what readFileSync returned for the PDF being parsed; writeOk:
\* writeFileSync succeeds.
runLoad(kn, emb, idx, ichunks, i, files, parser, writeOk) ==
    LET r == runFiles(kn, visible(readdirSync(idx)), i, files, parser)
        base == [kn |-> r.kn, emb |-> emb, index |-> idx, ichunks |-> ichunks,
                 load |-> <<>>, outcome |-> "running", hit |-> r.hit]
    IN  IF r.stop = "throw" THEN [base EXCEPT !.outcome = "stat threw"]
        ELSE IF r.stop = "await"
             THEN [base EXCEPT !.load = <<[pc |-> "parsing", idx |-> r.idx,
                                          data |-> files[DirEntries[r.idx].base],
                                          texts |-> <<>>, all |-> <<>>, bi |-> 0]>>]
        ELSE IF cacheMatches(idx, r.kn)
             THEN [base EXCEPT !.emb = idx.embeddings, !.outcome = "ok"]
        ELSE IF Len(r.kn) = 0
             THEN [base EXCEPT !.emb = <<>>, !.outcome = "ok",
                               !.index = IF writeOk THEN [exists |-> TRUE, embeddings |-> <<>>]
                                         ELSE idx,
                               !.ichunks = IF writeOk THEN 0 ELSE ichunks]
        ELSE [base EXCEPT !.load = <<[pc |-> "embedding", idx |-> r.idx, data |-> <<>>,
                                      texts |-> textsOf(r.kn), all |-> <<>>, bi |-> 0]>>]

\* ---------------------------------------- the embedding server's actions
MaxReloads == 2
MaxEdits == 1
MaxChats == 1

\* the vector the embeddings API returns for the question
QVecs == {<<1, 1>>}

\* what a file of the knowledge directory can be
TxtFiles == [doc : {DocX, DocY, DocZ}, cond : {"ok"}]
            \cup [doc : {DocX}, cond : {"unreadable", "dangling"}]
PdfFiles == [doc : {DocP}, cond : {"ok", "corrupt"}]

InitSrv ==
    /\ ChunkIdle
    /\ RankIdle
    /\ KwIdle
    /\ knowledge = <<>>
    /\ embeddings = <<>>
    /\ dirExists \in BOOLEAN
    /\ pdfParse \in BOOLEAN
    /\ fs \in [a : TxtFiles, b : PdfFiles]
    /\ index = NoIndex
    /\ loads = <<>>
    /\ started = FALSE
    /\ listening = FALSE
    /\ chat = [pc |-> "idle"]
    /\ reloadsLeft = MaxReloads
    /\ editsLeft = MaxEdits
    /\ chatsLeft = MaxChats
    /\ lastOutcome = "none"
    /\ indexChunks = 0
    /\ epochLoads = 0
    /\ edited = FALSE
    /\ faulted = FALSE

\* sequence s without its n-th element
Without(s, n) == SubSeq(s, 1, n - 1) \o SubSeq(s, n + 1, Len(s))

\* the state after a synchronous run r of a load; others are the other loads
Settle(r, others) ==
    /\ knowledge' = r.kn
    /\ embeddings' = r.emb
    /\ index' = r.index
    /\ indexChunks' = r.ichunks
    /\ loads' = others \o r.load
    /\ lastOutcome' = IF r.outcome = "running" THEN lastOutcome ELSE r.outcome
    /\ listening' = (listening \/ r.outcome # "running")

\* lines 37-44, then the loop: loadKnowledge from its first line to its first
\* await or its end
BeginLoad ==
    /\ epochLoads' = IF loads = <<>> THEN 1 ELSE epochLoads + 1
    /\ edited' = IF loads = <<>> THEN FALSE ELSE edited
    /\ IF ~dirExists
       THEN /\ Settle([kn |-> <<>>, emb |-> <<>>, index |-> index, ichunks |-> indexChunks,
                       load |-> <<>>, outcome |-> "ok", hit |-> FALSE], loads)
            /\ faulted' = IF loads = <<>> THEN FALSE ELSE faulted
       ELSE \E writeOk \in BOOLEAN :
               LET r == runLoad(<<>>, <<>>, index, indexChunks, 1, fs, pdfParse, writeOk)
               IN  /\ Settle(r, loads)
                   /\ faulted' = ((IF loads = <<>> THEN FALSE ELSE faulted) \/ r.hit)

\* lines 233-240: the call of loadKnowledge when the module is loaded;
\* app.listen follows when the promise settles
Startup ==
    /\ ~started
    /\ started' = TRUE
    /\ BeginLoad
    /\ UNCHANGED <<dirExists, pdfParse, fs, chat, reloadsLeft, editsLeft, chatsLeft>>

\* lines 222-229: POST /reload
Reload ==
    /\ listening
    /\ reloadsLeft > 0
    /\ reloadsLeft' = reloadsLeft - 1
    /\ BeginLoad
    /\ UNCHANGED <<dirExists, pdfParse, fs, chat, started, editsLeft, chatsLeft>>

\* lines 60-63: pdfParse resolves; the load pushes the chunks and runs on
LoadParsed ==
    \E n \in 1..Len(loads) :
       /\ loads[n].pc = "parsing"
       /\ loads[n].data.cond # "corrupt"
       /\ \E writeOk \in BOOLEAN :
             LET l == loads[n]
                 f == DirEntries[l.idx]
                 r == runLoad(knowledge \o pushChunks(l.data.doc, normName(f)), embeddings,
                              index, indexChunks, l.idx + 1, fs, pdfParse, writeOk)
             IN  /\ Settle(r, Without(loads, n))
                 /\ faulted' = (faulted \/ r.hit)
       /\ UNCHANGED <<dirExists, pdfParse, fs, chat, started, reloadsLeft, editsLeft,
                      chatsLeft, epochLoads, edited>>

\* lines 64-66: pdfParse rejects; the load warns and runs on
LoadParseFailed ==
    \E n \in 1..Len(loads) :
       /\ loads[n].pc = "parsing"
       /\ loads[n].data.cond = "corrupt"
       /\ \E writeOk \in BOOLEAN :
             LET l == loads[n]
                 r == runLoad(knowledge, embeddings, index, indexChunks, l.idx + 1, fs,
                              pdfParse, writeOk)
             IN  Settle(r, Without(loads, n))
       /\ faulted' = TRUE
       /\ UNCHANGED <<dirExists, pdfParse, fs, chat, started, reloadsLeft, editsLeft,
                      chatsLeft, epochLoads, edited>>

\* texts.slice(i, i + BATCH)
batchOf(texts, i) == SubSeq(texts, i + 1, Min(i + BATCH, Len(texts)))

\* lines 121-134: a batch of vectors arrives; after the last batch the load
\* assigns embeddings and writes .index.json
LoadEmbedded ==
    \E n \in 1..Len(loads) :
       /\ loads[n].pc = "embedding"
       /\ LET l == loads[n]
              all == l.all \o EmbedAll(batchOf(l.texts, l.bi))
              bi == l.bi + BATCH
          IN  IF bi < Len(l.texts)
              THEN /\ loads' = [loads EXCEPT ![n].all = all, ![n].bi = bi]
                   /\ UNCHANGED <<embeddings, index, indexChunks, lastOutcome, listening>>
              ELSE /\ embeddings' = all
                   /\ \E writeOk \in BOOLEAN :
                         /\ index' = IF writeOk THEN [exists |-> TRUE, embeddings |-> all]
                                     ELSE index
                         /\ indexChunks' = IF writeOk THEN Len(knowledge) ELSE indexChunks
                   /\ loads' = Without(loads, n)
                   /\ lastOutcome' = "ok"
                   /\ listening' = TRUE
       /\ UNCHANGED <<knowledge, dirExists, pdfParse, fs, chat, started, reloadsLeft,
                      editsLeft, chatsLeft, epochLoads, edited, faulted>>

\* line 121: client.embeddings.create rejects; loadKnowledge rejects
LoadEmbedFailed ==
    \E n \in 1..Len(loads) :
       /\ loads[n].pc = "embedding"
       /\ loads' = Without(loads, n)
       /\ lastOutcome' = "embeddings failed"
       /\ listening' = TRUE
       /\ faulted' = TRUE
       /\ UNCHANGED <<knowledge, embeddings, index, indexChunks, dirExists, pdfParse, fs,
                      chat, started, reloadsLeft, editsLeft, chatsLeft, epochLoads, edited>>

\* somebody replaces a file of the knowledge directory
EditFile ==
    /\ dirExists
    /\ editsLeft > 0
    /\ editsLeft' = editsLeft - 1
    /\ \/ \E file \in TxtFiles : file # fs.a /\ fs' = [fs EXCEPT !.a = file]
       \/ \E file \in PdfFiles : file # fs.b /\ fs' = [fs EXCEPT !.b = file]
    /\ edited' = TRUE
    /\ UNCHANGED <<knowledge, embeddings, index, indexChunks, dirExists, pdfParse, loads,
                   started, listening, chat, reloadsLeft, chatsLeft, lastOutcome, epochLoads,
                   faulted>>

chatRest == <<knowledge, embeddings, index, indexChunks, dirExists, pdfParse, fs, loads,
              started, listening, reloadsLeft, editsLeft, lastOutcome, epochLoads, edited,
              faulted>>

Responded(status, reply, error, cause, out) ==
    [pc |-> "responded", hits |-> chat.hits, status |-> status, reply |-> reply,
     error |-> error, cause |-> cause, out |-> out, sent |-> 1]

NoOut == [output_text |-> <<>>, isArray |-> FALSE, values |-> <<>>, response_text |-> <<>>]

\* lines 162-166 and 147-148: POST /api/chat arrives; with nothing loaded the
\* hits are empty and the handler goes on to the model call
ChatReceive ==
    /\ listening
    /\ chatsLeft > 0
    /\ chat.pc \in {"idle", "responded"}
    /\ chatsLeft' = chatsLeft - 1
    /\ IF Len(knowledge) = 0 \/ Len(embeddings) = 0
       THEN chat' = [pc |-> "model", hits |-> <<>>]
       ELSE chat' = [pc |-> "embed", hits |-> <<>>]
    /\ UNCHANGED chatRest

\* .map(h => `(${h.source}) ${h.text}`) throws a TypeError on undefined
contextThrows(hits) == \E n \in 1..Len(hits) : hits[n] = Undefined

\* lines 152-170: the question's vector arrives; the hits are ranked and the
\* Studio Reference context is built
ChatEmbedded ==
    /\ chat.pc = "embed"
    /\ \E qVec \in QVecs :
          LET hits == topChunks(knowledge, embeddings, qVec, 8)
          IN  IF contextThrows(hits)
              THEN chat' = [Responded(500, <<>>, <<"T", "y", "p", "e">>, "TypeError", NoOut)
                            EXCEPT !.hits = hits]
              ELSE chat' = [pc |-> "model", hits |-> hits]
    /\ UNCHANGED <<chatRest, chatsLeft>>

\* line 148 rejects: lines 196-199
ChatEmbedFailed ==
    /\ chat.pc = "embed"
    /\ chat' = Responded(500, <<>>, <<"e", "r", "r">>, "embeddings API", NoOut)
    /\ UNCHANGED <<chatRest, chatsLeft>>

\* lines 185-195: the model answers
ChatModelReplied ==
    /\ chat.pc = "model"
    /\ \E out \in ModelOutputs : chat' = Responded(200, embReply(out), <<>>, "", out)
    /\ UNCHANGED <<chatRest, chatsLeft>>

\* line 177 rejects: lines 196-199
ChatModelFailed ==
    /\ chat.pc = "model"
    /\ chat' = Responded(500, <<>>, <<"e", "r", "r">>, "model API", NoOut)
    /\ UNCHANGED <<chatRest, chatsLeft>>

OthersSrv == UNCHANGED <<chunkVars, rankVars, kwVars>>

NextSrv ==
    \/ Startup /\ OthersSrv
    \/ Reload /\ OthersSrv
    \/ LoadParsed /\ OthersSrv
    \/ LoadParseFailed /\ OthersSrv
    \/ LoadEmbedded /\ OthersSrv
    \/ LoadEmbedFailed /\ OthersSrv
    \/ EditFile /\ OthersSrv
    \/ ChatReceive /\ OthersSrv
    \/ ChatEmbedded /\ OthersSrv
    \/ ChatEmbedFailed /\ OthersSrv
    \/ ChatModelReplied /\ OthersSrv
    \/ ChatModelFailed /\ OthersSrv

SpecSrv == InitSrv /\ [][NextSrv]_vars

\* ------------------------------------------- what the claims speak about
\* the chunking of the files of the knowledge directory, in directory order,
\* leaving out the files in wanted that cannot be loaded (skip(f) holds)
RECURSIVE chunksOfFiles(_, _, _, _)
chunksOfFiles(entries, files, parser, skipBad) ==
    IF entries = <<>> THEN <<>>
    ELSE LET f == Head(entries)
             rest == chunksOfFiles(Tail(entries), files, parser, skipBad)
         IN  IF f.isFile /\ ~f.hidden /\ (f.ext = "txt" \/ (f.ext = "pdf" /\ parser))
                /\ ~(skipBad /\ files[f.base].cond # "ok")
             THEN pushChunks(files[f.base].doc, f.base) \o rest
             ELSE rest

\* every .txt file and, with pdf-parse, every .pdf file
corpusChunks == IF dirExists THEN chunksOfFiles(DirEntries, fs, pdfParse, FALSE) ELSE <<>>

\* the same without the files that cannot be read or parsed
readableChunks == IF dirExists THEN chunksOfFiles(DirEntries, fs, pdfParse, TRUE) ELSE <<>>

NoLoadInFlight == started /\ loads = <<>>

\* the loads since a load was last started with none in flight saw the same
\* files and no failure
Undisturbed == ~edited /\ ~faulted

\* the model's answer holds no text
noText(out) ==
    /\ out.output_text = <<>>
    /\ ~out.isArray \/ \A n \in 1..Len(out.values) : \A m \in 1..Len(out.values[n]) :
                          IsSpace(out.values[n][m])

\* C5: every POST /api/chat request receives exactly one response, either
\* status 200 with a non-empty reply, or status 500 with an error message when
\* the question-embedding call or the model call failed; when the model
\* returns no text the reply is the fallback sentence.
C5_ChatResponse ==
    chat.pc = "responded" =>
        /\ chat.sent = 1
        /\ \/ chat.status = 200 /\ chat.reply # <<>>
           \/ /\ chat.status = 500
              /\ chat.error # <<>>
              /\ chat.cause \in {"embeddings API", "model API"}
        /\ (chat.status = 200 /\ noText(chat.out)) => chat.reply = embFallback

\* C6: after a loadKnowledge run that completed successfully with no other
\* load in flight, on files that did not change or fail meanwhile,
\* embeddings[i] is the embedding of the text of knowledge[i] for every i, and
\* knowledge is the chunking of the files now in the directory - also when
\* .index.json holds the index of an earlier version of the corpus.
C6_EmbeddingsOfChunks ==
    (NoLoadInFlight /\ lastOutcome = "ok" /\ epochLoads = 1 /\ Undisturbed) =>
        /\ knowledge = corpusChunks
        /\ embeddings = EmbedAll(textsOf(knowledge))

\* C7: a failure on one file does not abort a load: no load ends because a
\* file of the directory failed, after a lone load the chunk list holds, in
\* directory order, the chunks of every file that can be read and parsed, and
\* without a knowledge directory the load completes with no chunks and no
\* embeddings.
C7_FileFailureTolerated ==
    /\ lastOutcome # "stat threw"
    /\ (NoLoadInFlight /\ epochLoads = 1 /\ ~edited) => knowledge = readableChunks
    /\ (started /\ ~dirExists) =>
          (knowledge = <<>> /\ embeddings = <<>> /\ lastOutcome = "ok")

\* C8: once every in-flight load has completed, the chunk list equals the
\* chunking of the files in the knowledge directory, each file's chunks once
\* and in directory order (the files unchanged and readable since the first
\* of these loads began).
C8_ChunksOnce ==
    (NoLoadInFlight /\ Undisturbed) => knowledge = corpusChunks

\* C9: whenever no load is in flight the embedding list is empty or has one
\* vector per chunk, and the index written to .index.json has as many vectors
\* as the chunk list had when it was written.
C9_OneVectorPerChunk ==
    /\ NoLoadInFlight => (Len(embeddings) = 0 \/ Len(embeddings) = Len(knowledge))
    /\ index # NoIndex => Len(index.embeddings) = indexChunks

\* C10: no hit of a POST /api/chat request is undefined, and no request ends
\* with status 500 because the context could not be built.
C10_HitsAreChunks ==
    chat.pc # "idle" =>
        /\ \A n \in 1..Len(chat.hits) : chat.hits[n] # Undefined
        /\ chat.pc = "responded" => chat.cause # "TypeError"

Init == InitSrv
Next == NextSrv
Spec == Init /\ [][Next]_vars
=============================================================================
